---- MODULE Spec2Model ----
(***************************************************************************)
(* Story tree, story pointers and generation jobs of the story backend     *)
(* (Backend/routers/story.py, Backend/routers/jobs.py).                    *)
(*                                                                         *)
(* The database is the shared state.  Every HTTP request runs in its own   *)
(* session (db/database.py get_db) and the application is deployed as      *)
(* independent serverless instances (api/index.py), so requests interleave *)
(* at the database: one step of the model is one committed transaction     *)
(* of one request (everything a handler does up to and including a         *)
(* db.commit(), a call to the external text generator included).           *)
(* Handlers that commit once are one action.                               *)
(***************************************************************************)
EXTENDS Integers, FiniteSets, Sequences, TLC

\* ---- bounds of the model ----
MaxStories == 1     \* story rows ever created
MaxNodes == 3       \* node rows ever created
MaxJobs == 1        \* job rows ever created (one per synchronous generation)
MaxStreams == 1     \* streamed generation requests accepted in one behaviour
MaxUpdates == 1     \* PATCH requests applied in one behaviour
MaxRequests == 1    \* generation requests in flight at the same time in Spec
MaxRaceRequests == 2 \* generation requests in flight at the same time in SpecRace
MaxChoices == 1     \* numbered choice lines in a provider response
MaxTokens == 2      \* token chunks of a provider stream

NULL == 0
StoryIds == 1..MaxStories
NodeIds == 1..MaxNodes
JobIds == 1..MaxJobs

VARIABLES
    stories,        \* table stories:     id -> row
    nodes,          \* table story_nodes: id -> row
    jobs,           \* table jobs:        id -> row
    next_story_id,  \* primary-key sequences (ids are never reused)
    next_node_id,
    next_job_id,
    reqs,           \* generation requests in flight: slot -> handler position and locals
    streams,        \* number of streamed generation requests accepted so far
    updates,        \* number of PATCH requests applied so far
    parser,         \* one call of the response parser: its arguments and its result
    memory,         \* a continuity context under repeated extract_context_updates
    sse,            \* streamed requests: slot -> what the response generator has done so far
    generator       \* the shared StoryGenerator and its last generate call

vars == <<stories, nodes, jobs, next_story_id, next_node_id, next_job_id, reqs, streams, updates,
         parser, memory, sse, generator>>
db == <<stories, nodes, jobs, next_story_id, next_node_id, next_job_id>>

\* ---- rows ----
Story(root, current, completed) ==
    [root_node_id |-> root, current_node_id |-> current, is_completed |-> completed]

StoryNode(story_id, parent_id, choices, is_root, is_ending, depth) ==
    [story_id |-> story_id, parent_id |-> parent_id, choices |-> choices,
     is_root |-> is_root, is_ending |-> is_ending, depth |-> depth]

\* of a job row the model keeps the owning story and the status
Job(story_id, status) == [story_id |-> story_id, status |-> status]

PENDING == "pending"
PROCESSING == "processing"
COMPLETED == "completed"
FAILED == "failed"
CANCELLED == "cancelled"

\* ---- request slots ----
\* kind: the endpoint; pc: the next step of its handler; story_id, node_id: the
\* path parameters; job: the job row it created; is_ending, new: the handler's
\* locals of the same names (new is the id of the node it inserted)
Idle ==
    [kind |-> "idle", pc |-> "idle", story_id |-> NULL, node_id |-> NULL, job |-> NULL,
     is_ending |-> FALSE, new |-> NULL]

Request(kind, pc, story_id, node_id, job) ==
    [kind |-> kind, pc |-> pc, story_id |-> story_id, node_id |-> node_id, job |-> job,
     is_ending |-> FALSE, new |-> NULL]

FreeSlots == {r \in DOMAIN reqs : reqs[r].kind = "idle"}
FreeSlot == CHOOSE r \in FreeSlots : \A q \in FreeSlots : r <= q

\* ---- table helpers ----
Insert(table, id, row) == [k \in DOMAIN table \cup {id} |-> IF k = id THEN row ELSE table[k]]
Remove(table, ids) == [k \in DOMAIN table \ ids |-> table[k]]

\* select(StoryNode).where(story_id == s, is_root == True)
RootsOf(s) == {n \in DOMAIN nodes : nodes[n].story_id = s /\ nodes[n].is_root}

\* the lookup by id alone, whatever the story
NodeExists(n, s) == n \in DOMAIN nodes

\* select(StoryNode).where(id == n, story_id == s).scalar_one_or_none()
NodeInStory(n, s) == n \in DOMAIN nodes /\ nodes[n].story_id = s

Children(n) == {c \in DOMAIN nodes : nodes[c].parent_id = n}

\* StoryNode.children has cascade="all, delete-orphan": db.delete(node)
\* deletes the node and, transitively, its children.
RECURSIVE Subtree(_)
Subtree(n) == {n} \cup UNION {Subtree(c) : c \in Children(n)}

\* no call of the parser is being looked at
NoCall == [pc |-> "none"]

\* the generator of a process that was pre-warmed with GROQ_API_KEY set
\* (_generator_instance exists and is initialised), before its first
\* generate call
NoGenerator ==
    [groq_model |-> "llama-3.1-8b-instant", model_name |-> "", invoked |-> <<>>,
     outcomes |-> <<>>, raised |-> 0,
     groq_api_key |-> TRUE, instance |-> TRUE, initialized |-> TRUE]

\* StoryGenerator._ensure_initialized: the generator afterwards; it raised
\* when the generator is still not initialised (no GROQ_API_KEY)
_ensure_initialized(g) ==
    IF g.initialized \/ ~g.groq_api_key THEN g ELSE [g EXCEPT !.initialized = TRUE]

\* get_story_generator: the singleton is assigned before it is initialised,
\* and a singleton that exists is returned as it is
get_story_generator(g) ==
    IF g.instance THEN g ELSE _ensure_initialized([g EXCEPT !.instance = TRUE])

\* the context a story starts with: story.story_context or {} is empty, and
\* extract_context_updates then starts from empty lists; names counts the
\* distinct character names the generated contents have used so far and
\* appended lists, in order, every name at each time it was appended
NoMemory ==
    [context |-> [characters |-> <<>>, key_events |-> <<>>], names |-> 0, appended |-> <<>>]

Init ==
    /\ stories = <<>>
    /\ nodes = <<>>
    /\ jobs = <<>>
    /\ next_story_id = 1
    /\ next_node_id = 1
    /\ next_job_id = 1
    /\ reqs = [r \in 1..MaxRequests |-> Idle]
    /\ sse = [r \in 1..MaxRequests |-> <<>>]
    /\ streams = 0
    /\ updates = 0
    /\ parser = NoCall
    /\ memory = NoMemory
    /\ generator = NoGenerator

\* ---- story CRUD ----
CreateStory(max) ==
    /\ next_story_id <= max
    /\ stories' = Insert(stories, next_story_id, Story(NULL, NULL, FALSE))
    /\ next_story_id' = next_story_id + 1
    /\ UNCHANGED <<nodes, jobs, next_node_id, next_job_id, reqs, streams, updates, parser, memory, sse, generator>>

create_story == CreateStory(MaxStories)

\* the update that also moves the reader back to the root
ApplyAndRewind(row, update_data) ==
    [f \in DOMAIN row |->
        IF f \in DOMAIN update_data THEN update_data[f]
        ELSE IF f = "current_node_id" THEN row.root_node_id
        ELSE row[f]]

\* StoryUpdate / StoryNodeUpdate: model_dump(exclude_unset=True) is the set of
\* fields present in the request; each is written with setattr.
ApplyUpdate(row, update_data) ==
    [f \in DOMAIN row |-> IF f \in DOMAIN update_data THEN update_data[f] ELSE row[f]]

\* db.commit() of a loaded row: the UPDATE is emitted when an attribute has
\* changed, and it then sets a column declared with onupdate=func.now()
\* (stories.updated_at, kept in the rows of SpecPatch) to a later time.
Flush(old, new) ==
    IF new # old /\ "updated_at" \in DOMAIN old
    THEN [new EXCEPT !.updated_at = old.updated_at + 1]
    ELSE new

StoryUpdates == {<<>>} \cup {[is_completed |-> c] : c \in BOOLEAN}

StoryNodeUpdates ==
    {<<>>} \cup {[choices |-> c] : c \in 0..MaxChoices}
           \cup {[is_ending |-> e] : e \in BOOLEAN}
           \cup {[choices |-> c, is_ending |-> e] : c \in 0..MaxChoices, e \in BOOLEAN}

\* A handler that raises HTTPException before its first write changes nothing.
Rejected == UNCHANGED vars

update_story(story_id, story_data) ==
    IF story_id \notin DOMAIN stories
    THEN Rejected
    ELSE /\ updates < MaxUpdates
         /\ stories' = [stories EXCEPT ![story_id] = Flush(@, ApplyUpdate(@, story_data))]
         /\ updates' = updates + 1
         /\ UNCHANGED <<nodes, jobs, next_story_id, next_node_id, next_job_id, reqs, streams, parser, memory, sse, generator>>

\* Story.nodes and Story.jobs have cascade="all, delete-orphan".
delete_story(story_id) ==
    IF story_id \notin DOMAIN stories
    THEN Rejected
    ELSE /\ stories' = Remove(stories, {story_id})
         /\ nodes' = Remove(nodes, {n \in DOMAIN nodes : nodes[n].story_id = story_id})
         /\ jobs' = Remove(jobs, {j \in DOMAIN jobs : jobs[j].story_id = story_id})
         /\ UNCHANGED <<next_story_id, next_node_id, next_job_id, reqs, streams, updates, parser, memory, sse, generator>>

\* ---- node CRUD ----
\* the depth computed without the increment
ChildDepthSame(p) == p.depth

\* depth of a node created under parent row p: parent.depth + 1
ChildDepth(p) == p.depth + 1

\* is_root = existing_root is None and node_data.parent_id is None
AuthoredIsRoot(story_id, parent_id) == RootsOf(story_id) = {} /\ parent_id = NULL

create_story_node(story_id, parent_id, is_ending) ==
    IF story_id \notin DOMAIN stories
    THEN Rejected
    ELSE IF Cardinality(RootsOf(story_id)) > 1
    THEN Rejected   \* scalar_one_or_none() raises MultipleResultsFound
    ELSE IF parent_id # NULL /\ ~NodeInStory(parent_id, story_id)
    THEN Rejected   \* 400 Invalid parent node
    ELSE /\ next_node_id <= MaxNodes
         /\ LET depth == IF parent_id # NULL THEN ChildDepth(nodes[parent_id]) ELSE 0
            IN  nodes' = Insert(nodes, next_node_id,
                                StoryNode(story_id, parent_id, 0,
                                          AuthoredIsRoot(story_id, parent_id), is_ending, depth))
         /\ next_node_id' = next_node_id + 1
         /\ UNCHANGED <<stories, jobs, next_story_id, next_job_id, reqs, streams, updates, parser, memory, sse, generator>>

update_story_node(story_id, node_id, node_data) ==
    IF ~NodeInStory(node_id, story_id)
    THEN Rejected
    ELSE /\ updates < MaxUpdates
         /\ nodes' = [nodes EXCEPT ![node_id] = ApplyUpdate(@, node_data)]
         /\ updates' = updates + 1
         /\ UNCHANGED <<stories, jobs, next_story_id, next_node_id, next_job_id, reqs, streams, parser, memory, sse, generator>>

\* delete that removes the row alone, without the cascade to children
delete_story_node_single(story_id, node_id) ==
    IF ~NodeInStory(node_id, story_id)
    THEN Rejected
    ELSE IF nodes[node_id].is_root
    THEN Rejected
    ELSE /\ nodes' = Remove(nodes, {node_id})
         /\ UNCHANGED <<stories, jobs, next_story_id, next_node_id, next_job_id, reqs, streams, updates, parser, memory, sse, generator>>

delete_story_node(story_id, node_id) ==
    IF ~NodeInStory(node_id, story_id)
    THEN Rejected
    ELSE IF nodes[node_id].is_root
    THEN Rejected   \* 400 Cannot delete root node
    ELSE /\ nodes' = Remove(nodes, Subtree(node_id))
         /\ UNCHANGED <<stories, jobs, next_story_id, next_node_id, next_job_id, reqs, streams, updates, parser, memory, sse, generator>>

\* ---- jobs ----
\* cancel_job without the test of the status
cancel_job_any(job_id) ==
    IF job_id \notin DOMAIN jobs
    THEN Rejected
    ELSE /\ jobs' = [jobs EXCEPT ![job_id].status = CANCELLED]
         /\ UNCHANGED <<stories, nodes, next_story_id, next_node_id, next_job_id, reqs, streams, updates, parser, memory, sse, generator>>

cancel_job(job_id) ==
    IF job_id \notin DOMAIN jobs
    THEN Rejected
    ELSE IF jobs[job_id].status # PENDING
    THEN Rejected   \* 400 Cannot cancel job
    ELSE /\ jobs' = [jobs EXCEPT ![job_id].status = CANCELLED]
         /\ UNCHANGED <<stories, nodes, next_story_id, next_node_id, next_job_id, reqs, streams, updates, parser, memory, sse, generator>>

\* ---- response parser, as far as the tree depends on it ----
\* The provider's text carries n numbered choice lines and an ENDING flag;
\* is_ending is the caller's job_type == "generate_ending".
Min(a, b) == IF a < b THEN a ELSE b
MaxParsedChoices == 4

parse_choices(n, is_ending) == IF is_ending THEN 0 ELSE Min(n, MaxParsedChoices)

_parse_response(n, detected_ending, is_ending) ==
    [choices |-> parse_choices(n, is_ending),
     is_ending |-> is_ending \/ detected_ending \/ parse_choices(n, is_ending) = 0]

\* ---- request bookkeeping ----
SyncKinds == {"generate_opening", "generate_continuation", "generate_ending"}
StreamKinds == {"stream_opening", "stream_continuation", "stream_ending"}

\* job type handed to the generator by a request of the given kind
JobType(kind) ==
    CASE kind \in {"generate_opening", "stream_opening"} -> "generate_opening"
      [] kind \in {"generate_continuation", "stream_continuation"} -> "generate_continuation"
      [] kind \in {"generate_ending", "stream_ending"} -> "generate_ending"

Finish(r) == reqs' = [reqs EXCEPT ![r] = Idle]
Goto(r, pc) == reqs' = [reqs EXCEPT ![r].pc = pc]

\* db.add(job); db.commit(); db.refresh(job) and the handler goes on
StartJob(kind, story_id, node_id) ==
    /\ jobs' = Insert(jobs, next_job_id, Job(story_id, PENDING))
    /\ next_job_id' = next_job_id + 1
    /\ reqs' = [reqs EXCEPT ![FreeSlot] = Request(kind, "processing", story_id, node_id, next_job_id)]
    /\ UNCHANGED <<stories, nodes, next_story_id, next_node_id, streams, updates, parser, memory, sse, generator>>

\* INSERT of a node row: story_nodes.story_id and story_nodes.parent_id are
\* foreign keys, so the commit fails when the story or the parent is gone.
CanInsertNode(story_id, parent_id) ==
    /\ story_id \in DOMAIN stories
    /\ parent_id # NULL => parent_id \in DOMAIN nodes

\* db.add(node); db.commit(); db.refresh(node) in request r, which goes on at pc
InsertNode(r, row, pc) ==
    /\ next_node_id <= MaxNodes
    /\ nodes' = Insert(nodes, next_node_id, row)
    /\ next_node_id' = next_node_id + 1
    /\ reqs' = [reqs EXCEPT ![r].pc = pc, ![r].new = next_node_id, ![r].is_ending = row.is_ending]

\* ---- synchronous generation (one job per request) ----
\* The provider call touches no row: it belongs to the step that follows it,
\* whose inputs are its outcome (ok: it returned; n, detected_ending: its text).

\* generate_story_opening up to the commit that creates the PENDING job
generate_story_opening(story_id) ==
    /\ FreeSlots # {}
    /\ IF story_id \notin DOMAIN stories
       THEN Rejected
       ELSE IF Cardinality(RootsOf(story_id)) > 1
       THEN Rejected   \* scalar_one_or_none() raises MultipleResultsFound
       ELSE IF RootsOf(story_id) # {}
       THEN Rejected   \* 400 Story already has an opening
       ELSE StartJob("generate_opening", story_id, NULL)

\* continue_story up to the commit that creates the PENDING job
continue_story(story_id, node_id) ==
    /\ FreeSlots # {}
    /\ IF story_id \notin DOMAIN stories \/ ~NodeInStory(node_id, story_id)
       THEN Rejected
       ELSE IF nodes[node_id].is_ending
       THEN Rejected   \* 400 Cannot continue from an ending node
       ELSE StartJob("generate_continuation", story_id, node_id)

\* generate_story_ending up to the commit that creates the PENDING job
generate_story_ending(story_id, node_id) ==
    /\ FreeSlots # {}
    /\ IF story_id \notin DOMAIN stories \/ ~NodeInStory(node_id, story_id)
       THEN Rejected
       ELSE StartJob("generate_ending", story_id, node_id)

\* the write of job.status = PROCESSING: an UPDATE keyed by the job id alone
SetProcessing(job) == [job EXCEPT !.status = PROCESSING]

\* try: job.status = PROCESSING; db.commit()     (fails when the row is gone)
\* generator = get_story_generator()
\* generator.generate(...) then builds the prompt from the story row and the
\* parent row, both expired by the commit: it raises when either is gone.
job_processing(r) ==
    /\ reqs[r].kind \in SyncKinds /\ reqs[r].pc = "processing"
    /\ IF reqs[r].job \in DOMAIN jobs
       THEN /\ jobs' = [jobs EXCEPT ![reqs[r].job] = SetProcessing(@)]
            /\ IF /\ reqs[r].story_id \in DOMAIN stories
                  /\ reqs[r].node_id # NULL => reqs[r].node_id \in DOMAIN nodes
               THEN Goto(r, "generate")
               ELSE Goto(r, "except")
            /\ generator' = get_story_generator(generator)
       ELSE /\ UNCHANGED <<jobs, generator>>
            /\ Goto(r, "except")
    /\ UNCHANGED <<stories, nodes, next_story_id, next_node_id, next_job_id, streams, updates, parser, memory, sse>>

\* node = StoryNode(choices=result["choices"], is_root=True,
\*                  is_ending=result["is_ending"], depth=0); db.add; db.commit
OpeningNode(story_id, result) ==
    StoryNode(story_id, NULL, result.choices, TRUE, result.is_ending, 0)

opening_node(r, ok, n, detected_ending) ==
    /\ reqs[r].kind = "generate_opening" /\ reqs[r].pc = "generate"
    /\ IF ok /\ CanInsertNode(reqs[r].story_id, NULL)
       THEN InsertNode(r, OpeningNode(reqs[r].story_id, _parse_response(n, detected_ending, FALSE)),
                       "pointers")
       ELSE /\ UNCHANGED <<nodes, next_node_id>>
            /\ Goto(r, "except")
    /\ UNCHANGED <<stories, jobs, next_story_id, next_job_id, streams, updates, parser, memory, sse, generator>>

\* story.root_node_id = node.id; story.current_node_id = node.id; db.commit
OpeningPointers(story, node_id) ==
    [story EXCEPT !.root_node_id = node_id, !.current_node_id = node_id]

opening_pointers(r) ==
    /\ reqs[r].kind = "generate_opening" /\ reqs[r].pc = "pointers"
    /\ IF reqs[r].story_id \in DOMAIN stories
       THEN /\ stories' = [stories EXCEPT ![reqs[r].story_id] = OpeningPointers(@, reqs[r].new)]
            /\ Goto(r, "completed")
       ELSE /\ UNCHANGED stories
            /\ Goto(r, "except")
    /\ UNCHANGED <<nodes, jobs, next_story_id, next_node_id, next_job_id, streams, updates, parser, memory, sse, generator>>

\* new_node = StoryNode(parent_id=node_id, choices=result["choices"],
\*     is_ending=result["is_ending"], depth=node.depth + 1); db.add; db.commit
ContinuationNode(story_id, node_id, result) ==
    StoryNode(story_id, node_id, result.choices, FALSE, result.is_ending,
              ChildDepth(nodes[node_id]))

continue_node(r, ok, n, detected_ending) ==
    /\ reqs[r].kind = "generate_continuation" /\ reqs[r].pc = "generate"
    /\ IF ok /\ CanInsertNode(reqs[r].story_id, reqs[r].node_id)
       THEN InsertNode(r, ContinuationNode(reqs[r].story_id, reqs[r].node_id,
                                           _parse_response(n, detected_ending, FALSE)),
                       "pointers")
       ELSE /\ UNCHANGED <<nodes, next_node_id>>
            /\ Goto(r, "except")
    /\ UNCHANGED <<stories, jobs, next_story_id, next_job_id, streams, updates, parser, memory, sse, generator>>

\* the pointer written only while the story has none
FirstPointer(story, node_id) ==
    IF story.current_node_id = NULL THEN [story EXCEPT !.current_node_id = node_id] ELSE story

\* story.current_node_id = new_node.id; db.commit
ContinuationPointers(story, node_id) == [story EXCEPT !.current_node_id = node_id]

continue_pointers(r) ==
    /\ reqs[r].kind = "generate_continuation" /\ reqs[r].pc = "pointers"
    /\ IF reqs[r].story_id \in DOMAIN stories
       THEN /\ stories' = [stories EXCEPT ![reqs[r].story_id] = ContinuationPointers(@, reqs[r].new)]
            /\ Goto(r, "completed")
       ELSE /\ UNCHANGED stories
            /\ Goto(r, "except")
    /\ UNCHANGED <<nodes, jobs, next_story_id, next_node_id, next_job_id, streams, updates, parser, memory, sse, generator>>

\* ending_node = StoryNode(choices=[], is_ending=True, depth=node.depth + 1)
EndingNode(story_id, node_id) ==
    StoryNode(story_id, node_id, 0, FALSE, TRUE, ChildDepth(nodes[node_id]))

\* db.add(ending_node)
\* story.is_completed = True
\* story.current_node_id = ending_node.id
\*     ending_node is pending (added, not flushed): its primary key is still
\*     None when it is read here, so None is what the story row receives
\* db.commit()         one transaction for the node and the story row
EndingPointers(story) == [story EXCEPT !.is_completed = TRUE, !.current_node_id = NULL]

ending_node(r, ok) ==
    /\ reqs[r].kind = "generate_ending" /\ reqs[r].pc = "generate"
    /\ IF ok /\ CanInsertNode(reqs[r].story_id, reqs[r].node_id)
       THEN /\ InsertNode(r, EndingNode(reqs[r].story_id, reqs[r].node_id), "completed")
            /\ stories' = [stories EXCEPT ![reqs[r].story_id] = EndingPointers(@)]
       ELSE /\ UNCHANGED <<stories, nodes, next_node_id>>
            /\ Goto(r, "except")
    /\ UNCHANGED <<jobs, next_story_id, next_job_id, streams, updates, parser, memory, sse, generator>>

\* the return of JobStartResponse without the write of the status
job_returned(r) ==
    /\ reqs[r].kind \in SyncKinds /\ reqs[r].pc = "completed"
    /\ Finish(r)
    /\ UNCHANGED db /\ UNCHANGED <<streams, updates, parser, memory, sse, generator>>

\* job.status = COMPLETED; job.node_id = node.id; db.commit; return JobStartResponse
\* (jobs.node_id is a foreign key: the commit fails when the node is gone)
job_completed(r) ==
    /\ reqs[r].kind \in SyncKinds /\ reqs[r].pc = "completed"
    /\ IF reqs[r].job \in DOMAIN jobs /\ reqs[r].new \in DOMAIN nodes
       THEN /\ jobs' = [jobs EXCEPT ![reqs[r].job].status = COMPLETED]
            /\ Finish(r)
       ELSE /\ UNCHANGED jobs
            /\ Goto(r, "except")
    /\ UNCHANGED <<stories, nodes, next_story_id, next_node_id, next_job_id, streams, updates, parser, memory, sse, generator>>

\* story.root_node_id = node.id; story.current_node_id = node.id (opening),
\* story.current_node_id = new_node.id (continuation): assigned, not committed
PendingPointers(r, story) ==
    IF reqs[r].kind = "generate_opening"
    THEN OpeningPointers(story, reqs[r].new)
    ELSE ContinuationPointers(story, reqs[r].new)

\* existing_context = story.story_context or {}
\* updated_context = generator.extract_context_updates(...) raises: the
\* handler goes to its except clause with the pointers assigned
context_update_fails(r) ==
    /\ reqs[r].kind \in {"generate_opening", "generate_continuation"}
    /\ reqs[r].pc = "pointers"
    /\ reqs[r].story_id \in DOMAIN stories
    /\ Goto(r, "except_pending")
    /\ UNCHANGED <<db, streams, updates, parser, memory, sse, generator>>

\* the except branch without the write of the status
job_failed_silent(r) ==
    /\ reqs[r].kind \in SyncKinds /\ reqs[r].pc \in {"except", "except_pending"}
    /\ Finish(r)
    /\ UNCHANGED db /\ UNCHANGED <<streams, updates, parser, memory, sse, generator>>

\* except Exception: job.status = FAILED; db.commit; raise HTTPException(500)
\* The commit flushes every changed row of the session: at "except_pending"
\* these are the job row and the story row whose pointers were assigned
\* before the exception (the commit fails when the job or the story is gone).
job_failed(r) ==
    /\ reqs[r].kind \in SyncKinds /\ reqs[r].pc \in {"except", "except_pending"}
    /\ IF reqs[r].pc = "except_pending"
       THEN IF reqs[r].job \in DOMAIN jobs /\ reqs[r].story_id \in DOMAIN stories
            THEN /\ jobs' = [jobs EXCEPT ![reqs[r].job].status = FAILED]
                 /\ stories' = [stories EXCEPT ![reqs[r].story_id] = PendingPointers(r, @)]
            ELSE UNCHANGED <<jobs, stories>>
       ELSE /\ IF reqs[r].job \in DOMAIN jobs
               THEN jobs' = [jobs EXCEPT ![reqs[r].job].status = FAILED]
               ELSE UNCHANGED jobs
            /\ UNCHANGED stories
    /\ Finish(r)
    /\ UNCHANGED <<nodes, next_story_id, next_node_id, next_job_id, streams, updates, parser, memory, sse, generator>>

\* ---- streamed generation (no job row) ----
\* The endpoint validates and returns the StreamingResponse; the body of
\* stream_story_generation runs afterwards, while the response is sent.
StartStream(kind, story_id, node_id) ==
    /\ streams < MaxStreams
    /\ reqs' = [reqs EXCEPT ![FreeSlot] = Request(kind, "start", story_id, node_id, NULL)]
    /\ streams' = streams + 1
    /\ sse' = [sse EXCEPT ![FreeSlot] = <<>>]
    /\ UNCHANGED <<db, updates, parser, memory, generator>>

stream_story_opening(story_id) ==
    /\ FreeSlots # {}
    /\ IF story_id \notin DOMAIN stories
       THEN Rejected
       ELSE IF Cardinality(RootsOf(story_id)) > 1
       THEN Rejected   \* scalar_one_or_none() raises MultipleResultsFound
       ELSE IF RootsOf(story_id) # {}
       THEN Rejected   \* 400 Story already has an opening
       ELSE StartStream("stream_opening", story_id, NULL)

stream_story_continuation(story_id, node_id) ==
    /\ FreeSlots # {}
    /\ IF story_id \notin DOMAIN stories \/ ~NodeInStory(node_id, story_id)
       THEN Rejected
       ELSE IF nodes[node_id].is_ending
       THEN Rejected   \* 400 Cannot continue from an ending node
       ELSE StartStream("stream_continuation", story_id, node_id)

stream_story_ending(story_id, node_id) ==
    /\ FreeSlots # {}
    /\ IF story_id \notin DOMAIN stories \/ ~NodeInStory(node_id, story_id)
       THEN Rejected
       ELSE StartStream("stream_ending", story_id, node_id)

\* What the response generator of request r has done is kept in order in
\* sse[r]: the events it has yielded ("token", "done", "error") and, between
\* them, the end of the provider stream ("complete": the parsed chunk that
\* generate_stream yields after the last token) and its two commits ("node",
\* "story").
Yield(r, steps) == sse' = [sse EXCEPT ![r] = @ \o steps]

\* stream_story_generation, first part: story = db.get(Story, story_id);
\* parent_node = db.get(StoryNode, parent_node_id); an error event and return
\* when the story is gone or the parent is gone or of another story.
\* The prompt is then built from these loaded rows.
\* generator = get_story_generator() stands before the try block: when it
\* raises, the exception leaves the response generator and nothing is yielded.
stream_start(r) ==
    /\ reqs[r].kind \in StreamKinds /\ reqs[r].pc = "start"
    /\ IF /\ reqs[r].story_id \in DOMAIN stories
          /\ reqs[r].node_id # NULL => NodeInStory(reqs[r].node_id, reqs[r].story_id)
       THEN /\ generator' = get_story_generator(generator)
            /\ IF ~generator.instance /\ ~generator'.initialized
               THEN Finish(r)
               ELSE Goto(r, "generate")
            /\ UNCHANGED sse
       ELSE Finish(r) /\ Yield(r, <<"error">>) /\ UNCHANGED generator
    /\ UNCHANGED <<db, streams, updates, parser, memory>>

\* is_root = job_type == "generate_opening"
\* is_ending = job_type == "generate_ending" or final_result["is_ending"]
\* depth = parent_node.depth + 1 if parent_node else 0
\* node = StoryNode(parent_id=parent_node_id,
\*                  choices=final_result["choices"] if not is_ending else [], ...)
StreamIsEnding(job_type, final_result) ==
    job_type = "generate_ending" \/ final_result.is_ending

StreamNode(story_id, parent_node_id, job_type, final_result) ==
    StoryNode(story_id, parent_node_id,
              IF StreamIsEnding(job_type, final_result) THEN 0 ELSE final_result.choices,
              job_type = "generate_opening",
              StreamIsEnding(job_type, final_result),
              IF parent_node_id # NULL THEN ChildDepth(nodes[parent_node_id]) ELSE 0)

\* for chunk in generator.generate_stream(...): a token chunk is forwarded
\* (generate_stream starts with self._ensure_initialized(), inside the try
\* block of stream_story_generation)
stream_token(r) ==
    /\ reqs[r].kind \in StreamKinds /\ reqs[r].pc = "generate"
    /\ Len(sse[r]) < MaxTokens
    /\ generator' = _ensure_initialized(generator)
    /\ generator'.initialized
    /\ Yield(r, <<"token">>)
    /\ UNCHANGED <<db, reqs, streams, updates, parser, memory>>

\* the provider stream ends with the parsed "done" chunk (final_result) or with
\* an "error" chunk (error event and return); then db.add(node); db.commit(),
\* where an exception is an error event and the end. A generator that
\* _ensure_initialized cannot initialise raises in the try block: error event.
stream_node(r, ok, n, detected_ending) ==
    /\ reqs[r].kind \in StreamKinds /\ reqs[r].pc = "generate"
    /\ generator' = _ensure_initialized(generator)
    /\ ok => generator'.initialized
    /\ IF ok /\ CanInsertNode(reqs[r].story_id, reqs[r].node_id)
       THEN LET job_type == JobType(reqs[r].kind)
                final_result == _parse_response(n, detected_ending, job_type = "generate_ending")
            IN  /\ InsertNode(r, StreamNode(reqs[r].story_id, reqs[r].node_id, job_type,
                                            final_result),
                              "pointers")
                /\ Yield(r, <<"complete", "node">>)
       ELSE /\ UNCHANGED <<nodes, next_node_id>>
            /\ Finish(r)
            /\ Yield(r, IF ok THEN <<"complete", "error">> ELSE <<"error">>)
    /\ UNCHANGED <<stories, jobs, next_story_id, next_job_id, streams, updates, parser, memory>>

\* if is_root: story.root_node_id = node.id
\* if is_ending: story.is_completed = True
\* story.current_node_id = node.id
StreamPointers(story, node_id, is_root, is_ending) ==
    [story EXCEPT
       !.root_node_id = IF is_root THEN node_id ELSE @,
       !.is_completed = IF is_ending THEN TRUE ELSE @,
       !.current_node_id = node_id]

\* the done event yielded whether or not the commit went through
stream_pointers_always_done(r) ==
    /\ reqs[r].kind \in StreamKinds /\ reqs[r].pc = "pointers"
    /\ IF reqs[r].story_id \in DOMAIN stories
       THEN /\ stories' = [stories EXCEPT ![reqs[r].story_id] =
                           StreamPointers(@, reqs[r].new,
                                          JobType(reqs[r].kind) = "generate_opening",
                                          reqs[r].is_ending)]
            /\ Yield(r, <<"story", "done">>)
       ELSE /\ UNCHANGED stories
            /\ Yield(r, <<"done">>)
    /\ Finish(r)
    /\ UNCHANGED <<nodes, jobs, next_story_id, next_node_id, next_job_id, streams, updates, parser, memory, generator>>

\* db.commit(); yield the done event    (error event when the story is gone)
stream_pointers(r) ==
    /\ reqs[r].kind \in StreamKinds /\ reqs[r].pc = "pointers"
    /\ IF reqs[r].story_id \in DOMAIN stories
       THEN /\ stories' = [stories EXCEPT ![reqs[r].story_id] =
                           StreamPointers(@, reqs[r].new,
                                          JobType(reqs[r].kind) = "generate_opening",
                                          reqs[r].is_ending)]
            /\ Yield(r, <<"story", "done">>)
       ELSE /\ UNCHANGED stories
            /\ Yield(r, <<"error">>)
    /\ Finish(r)
    /\ UNCHANGED <<nodes, jobs, next_story_id, next_node_id, next_job_id, streams, updates, parser, memory, generator>>

\* ---- specifications ----
\* the endpoints that change the tree of a story of S
TreeOn(S) ==
    \/ \E s \in S : delete_story(s)
    \/ \E s \in S, p \in {NULL} \cup NodeIds, e \in BOOLEAN : create_story_node(s, p, e)
    \/ \E s \in S, n \in NodeIds : delete_story_node(s, n)

Tree == create_story \/ TreeOn(StoryIds)

Patch ==
    \/ \E s \in StoryIds, d \in StoryUpdates : update_story(s, d)
    \/ \E s \in StoryIds, n \in NodeIds, d \in StoryNodeUpdates : update_story_node(s, n, d)

\* the streamed generation endpoints on the stories of S, and the steps of
\* their response generators
StreamOn(S) ==
    \/ \E s \in S : stream_story_opening(s)
    \/ \E s \in S, n \in NodeIds : stream_story_continuation(s, n)
    \/ \E s \in S, n \in NodeIds : stream_story_ending(s, n)
    \/ \E r \in DOMAIN reqs : stream_start(r)
    \/ \E r \in DOMAIN reqs, ok \in BOOLEAN, n \in 0..MaxChoices, e \in BOOLEAN : stream_node(r, ok, n, e)
    \/ \E r \in DOMAIN reqs : stream_pointers(r)

\* the synchronous generation endpoints on the stories of S, and the steps of
\* their requests
SyncOn(S) ==
    \/ \E j \in JobIds : cancel_job(j)
    \/ \E s \in S : next_job_id <= MaxJobs /\ generate_story_opening(s)
    \/ \E s \in S, n \in NodeIds : next_job_id <= MaxJobs /\ continue_story(s, n)
    \/ \E s \in S, n \in NodeIds : next_job_id <= MaxJobs /\ generate_story_ending(s, n)
    \/ \E r \in DOMAIN reqs : job_processing(r)
    \/ \E r \in DOMAIN reqs, ok \in BOOLEAN, n \in 0..MaxChoices, e \in BOOLEAN : opening_node(r, ok, n, e)
    \/ \E r \in DOMAIN reqs : opening_pointers(r)
    \/ \E r \in DOMAIN reqs, ok \in BOOLEAN, n \in 0..MaxChoices, e \in BOOLEAN : continue_node(r, ok, n, e)
    \/ \E r \in DOMAIN reqs : continue_pointers(r)
    \/ \E r \in DOMAIN reqs, ok \in BOOLEAN : ending_node(r, ok)
    \/ \E r \in DOMAIN reqs : job_completed(r)
    \/ \E r \in DOMAIN reqs : job_failed(r)

\* the generation endpoints on the stories of S, and the steps of their requests
GenerationOn(S) == SyncOn(S) \/ StreamOn(S)

Generation == GenerationOn(StoryIds)

\* Every endpoint; generation requests are served one at a time
\* (MaxRequests in flight), interleaved with all the others.
Next == Tree \/ Patch \/ Generation

Spec == Init /\ [][Next]_vars

\* Concurrent generation requests (MaxRaceRequests in flight) interleaved with
\* the endpoints that change the tree; the PATCH endpoints are left out.
InitRace ==
    /\ stories = <<>>
    /\ nodes = <<>>
    /\ jobs = <<>>
    /\ next_story_id = 1
    /\ next_node_id = 1
    /\ next_job_id = 1
    /\ reqs = [r \in 1..MaxRaceRequests |-> Idle]
    /\ sse = [r \in 1..MaxRaceRequests |-> <<>>]
    /\ streams = 0
    /\ updates = 0
    /\ parser = NoCall
    /\ memory = NoMemory
    /\ generator = NoGenerator

NextRace == Tree \/ Generation

SpecRace == InitRace /\ [][NextRace]_vars

\* ---- properties ----
NodesOf(s) == {n \in DOMAIN nodes : nodes[n].story_id = s}

\* request r returns its success response in this step: the synchronous
\* handlers after the COMPLETED commit, the streamed ones with the done event
ReturnsOk(r) ==
    /\ reqs[r].pc = IF reqs[r].kind \in SyncKinds THEN "completed" ELSE "pointers"
    /\ reqs'[r].kind = "idle"
    /\ reqs[r].story_id \in DOMAIN stories

\* request r is accepted in this step (it passed the endpoint's validation)
Accepted(r) == reqs[r].kind = "idle" /\ reqs'[r].kind # "idle"

\* C1: in every reachable state each story has at most one node with
\* is_root = true, also when opening requests and node authoring interleave.
C1_AtMostOneRoot == \A s \in DOMAIN stories : Cardinality(RootsOf(s)) <= 1

\* C2: every persisted node has depth 0 exactly when its parent_id is null,
\* and otherwise its parent exists and its depth is the parent's depth + 1.
C2_DepthFollowsParent ==
    \A n \in DOMAIN nodes :
        /\ nodes[n].depth = 0 <=> nodes[n].parent_id = NULL
        /\ nodes[n].parent_id # NULL =>
              /\ nodes[n].parent_id \in DOMAIN nodes
              /\ nodes[n].depth = nodes[nodes[n].parent_id].depth + 1

\* C2 witness: a generation request has just inserted a node at depth 2,
\* below a node that itself has a parent.
C2_Witness ==
    \E r \in DOMAIN reqs :
        /\ reqs[r].new \in DOMAIN nodes
        /\ nodes[reqs[r].new].depth = 2
        /\ nodes[reqs[r].new].parent_id \in DOMAIN nodes
        /\ nodes[nodes[reqs[r].new].parent_id].parent_id \in DOMAIN nodes

\* C3: node authoring with a null parent_id on a story that already has a
\* root is rejected and creates no node.
C3_SecondRootRejected ==
    [][\A s \in StoryIds, e \in BOOLEAN :
          (RootsOf(s) # {} /\ create_story_node(s, NULL, e)) => UNCHANGED nodes]_vars

\* C4: from the moment a story has a node, root_node_id is the id of the
\* story's is_root node; and once set, root_node_id never changes.
C4_RootPointer ==
    /\ [](\A s \in DOMAIN stories :
              NodesOf(s) # {} => RootsOf(s) = {stories[s].root_node_id})
    /\ [][\A s \in DOMAIN stories \cap DOMAIN stories' :
              stories[s].root_node_id # NULL =>
                  stories'[s].root_node_id = stories[s].root_node_id]_vars

\* C5: a story's current_node_id is unset or the id of an existing node of
\* that story.
C5_CurrentNodeValid ==
    \A s \in DOMAIN stories :
        stories[s].current_node_id = NULL \/ NodeInStory(stories[s].current_node_id, s)

\* C6: when a generation request returns successfully, the story's
\* current_node_id is the id of the node that request created.
C6_CurrentIsNewNode ==
    [][\A r \in DOMAIN reqs :
          ReturnsOk(r) => stories'[reqs[r].story_id].current_node_id = reqs[r].new]_vars

\* C7: when a generation request that persisted an is_ending node returns
\* successfully, the story's is_completed flag is true.
C7_EndingCompletesStory ==
    [][\A r \in DOMAIN reqs :
          (ReturnsOk(r) /\ reqs[r].is_ending) => stories'[reqs[r].story_id].is_completed]_vars

\* C8: every persisted node with is_ending = true has an empty choice list.
C8_EndingHasNoChoices == \A n \in DOMAIN nodes : nodes[n].is_ending => nodes[n].choices = 0

\* C9: a continuation or ending request (synchronous or streamed) is accepted
\* only when its target node is not an ending node.
C9_NoGenerationFromEnding ==
    [][\A r \in DOMAIN reqs :
          (Accepted(r) /\ reqs'[r].node_id # NULL) => ~nodes[reqs'[r].node_id].is_ending]_vars

\* C10: a job's status only moves pending -> processing -> {completed, failed}
\* or pending -> cancelled.
C10_JobStatusForward ==
    [][\A j \in DOMAIN jobs \cap DOMAIN jobs' :
          jobs'[j].status # jobs[j].status =>
              <<jobs[j].status, jobs'[j].status>> \in
                  {<<PENDING, PROCESSING>>, <<PROCESSING, COMPLETED>>,
                   <<PROCESSING, FAILED>>, <<PENDING, CANCELLED>>}]_vars

\* C11: cancel_job changes a job only when its status is pending: a job
\* becomes cancelled only from pending, and cancel_job on a processing,
\* completed, failed or cancelled job is an error that changes nothing.
C11_CancelOnlyPending ==
    [][\A j \in DOMAIN jobs :
          /\ (j \in DOMAIN jobs' /\ jobs'[j].status = CANCELLED /\ jobs[j].status # CANCELLED)
                => jobs[j].status = PENDING
          /\ (jobs[j].status # PENDING /\ cancel_job(j)) => UNCHANGED db]_vars

\* C11 witness: a job has been cancelled while a request still holds it.
C11_Witness ==
    \E r \in DOMAIN reqs :
        reqs[r].job \in DOMAIN jobs /\ jobs[reqs[r].job].status = CANCELLED

\* the external generator call of synchronous request r fails in this step
GeneratorFails(r) ==
    \E n \in 0..MaxChoices, e \in BOOLEAN :
        opening_node(r, FALSE, n, e) \/ continue_node(r, FALSE, n, e) \/ ending_node(r, FALSE)

\* C12: when the generator call of a synchronous request fails, the step
\* creates no node and leaves the story rows alone and the handler enters its
\* except branch, which sets the job to failed and again touches no node and
\* no story row.
C12_FailureLeavesStory ==
    [][\A r \in DOMAIN reqs :
          /\ GeneratorFails(r) =>
                /\ UNCHANGED <<stories, nodes, jobs>>
                /\ reqs'[r].pc = "except" /\ reqs'[r].new = NULL
          /\ (reqs[r].kind \in SyncKinds /\ reqs[r].pc = "except" /\ reqs'[r].kind = "idle") =>
                /\ UNCHANGED <<stories, nodes>>
                /\ reqs[r].job \in DOMAIN jobs =>
                      (reqs[r].job \in DOMAIN jobs' /\ jobs'[reqs[r].job].status = FAILED)]_vars

\* C12 witness: an opening request whose generator call failed has ended: its
\* job is failed and the story has no node and no pointer.
C12_Witness ==
    \E j \in DOMAIN jobs :
        /\ jobs[j].status = FAILED
        /\ jobs[j].story_id \in DOMAIN stories
        /\ NodesOf(jobs[j].story_id) = {}
        /\ stories[jobs[j].story_id] = Story(NULL, NULL, FALSE)
        /\ \A r \in DOMAIN reqs : reqs[r].kind = "idle"

\* node k lies below node n: n is reached from k over StoryNode.parent
RECURSIVE HasAncestor(_, _)
HasAncestor(k, n) ==
    /\ k \in DOMAIN nodes
    /\ nodes[k].parent_id # NULL
    /\ nodes[k].parent_id = n \/ HasAncestor(nodes[k].parent_id, n)

\* C13: delete_story_node on a non-root node removes that node and every node
\* below it, and changes no other node; on the root node it is rejected and
\* the node table is unchanged.
C13_DeleteRemovesSubtree ==
    [][\A s \in DOMAIN stories, n \in DOMAIN nodes :
          (NodeInStory(n, s) /\ delete_story_node(s, n)) =>
              IF nodes[n].is_root
              THEN UNCHANGED nodes
              ELSE /\ DOMAIN nodes' = {k \in DOMAIN nodes : k # n /\ ~HasAncestor(k, n)}
                   /\ \A k \in DOMAIN nodes' : nodes'[k] = nodes[k]]_vars

\* C13 witness: node 2 and the node 3 that a request inserted below it are
\* gone, and the root is all that is left of the three nodes created.
C13_Witness ==
    /\ next_node_id = 4
    /\ DOMAIN nodes = {1} /\ nodes[1].is_root
    /\ \E r \in DOMAIN reqs : reqs[r].node_id = 2 /\ reqs[r].new = 3

\* ---- get_story_branches, computed from the nodes (no saved branches) ----
\* collect_branches(node, path): the branches found from node on, as records
\* of the node ids on the path and the is_complete flag
RECURSIVE collect_branches(_, _, _)
collect_branches(story_id, node, path) ==
    LET current_path == Append(path, node)
        children == {n \in NodesOf(story_id) : nodes[n].parent_id = node}
    IN  IF children = {} \/ nodes[node].is_ending
        THEN {[nodes |-> current_path, is_complete |-> nodes[node].is_ending]}
        ELSE UNION {collect_branches(story_id, child, current_path) : child \in children}

\* root_node = next((n for n in story.nodes if n.is_root), None): the first
\* is_root node in the order the rows are loaded, which no ORDER BY fixes; an
\* empty list when there is none
get_story_branches(story_id, root_node) ==
    IF root_node = NULL THEN {} ELSE collect_branches(story_id, root_node, <<>>)

\* C14: every branch computed from the nodes starts at the root, follows
\* parent-to-child links, ends at a node that has no children, and has
\* is_complete exactly when its last node is an ending node.
C14_BranchesEndAtLeaves ==
    \A s \in DOMAIN stories : \A root_node \in RootsOf(s) :
        \A b \in get_story_branches(s, root_node) :
            /\ b.nodes[1] = root_node
            /\ \A i \in 1..(Len(b.nodes) - 1) : nodes[b.nodes[i + 1]].parent_id = b.nodes[i]
            /\ Children(b.nodes[Len(b.nodes)]) = {}
            /\ b.is_complete <=> nodes[b.nodes[Len(b.nodes)]].is_ending

\* ---- the response parser on texts ----
\* A text is a sequence of tokens: the six tags, blank and newline, a
\* number followed by a dot ("1."), the words true and false, and other words.
MaxLen == 4         \* tokens of a text drawn freely
MaxLines == 5       \* numbered lines in the CHOICES block of a well-formed text

SPACE == " "
NEWLINE == "\n"
NUMBER == "1."
Whitespace == {SPACE, NEWLINE}
OpenTags == {"[STORY]", "[CHOICES]", "[ENDING]"}
CloseTags == {"[/STORY]", "[/CHOICES]", "[/ENDING]"}
Words == {"a", "b", "true", "false"}
Tokens == OpenTags \cup CloseTags \cup Whitespace \cup {NUMBER} \cup Words

SetMin(S) == CHOOSE x \in S : \A y \in S : x <= y
SetMax(S) == CHOOSE x \in S : \A y \in S : x >= y

\* no stripping at all
strip_nothing(t) == t

\* str.strip()
strip(t) ==
    LET kept == {i \in 1..Len(t) : t[i] \notin Whitespace}
    IN  IF kept = {} THEN <<>> ELSE SubSeq(t, SetMin(kept), SetMax(kept))

\* re.search(r'\[TAG\](.*?)\[/TAG\]', t): the leftmost opening tag that has a
\* closing tag after it, and the text up to the first such closing tag; without
\* re.DOTALL no newline may lie in between.  <<>> when there is no match,
\* else <<group(1)>>.
re_search(open, close, t, dotall) ==
    LET FirstClose(i) == SetMin({j \in (i + 1)..Len(t) : t[j] = close})
        Matches(i) ==
            /\ t[i] = open
            /\ \E j \in (i + 1)..Len(t) : t[j] = close
            /\ dotall \/ \A m \in (i + 1)..(FirstClose(i) - 1) : t[m] # NEWLINE
        starts == {i \in 1..Len(t) : Matches(i)}
    IN  IF starts = {}
        THEN <<>>
        ELSE <<SubSeq(t, SetMin(starts) + 1, FirstClose(SetMin(starts)) - 1)>>

\* re.sub(r'\[(STORY|CHOICES|ENDING)\]', '', t) and the same for closing tags
remove_tags(t) == SelectSeq(t, LAMBDA x : x \notin OpenTags \cup CloseTags)

\* re.findall(r'\d+\.\s*(.+)', t) from position from on: at each number-dot,
\* \s* takes the whitespace that follows (newlines too) and (.+) the rest of
\* that line, which must not be empty; when only whitespace is left up to the
\* end of the text, \s* gives back as far as the last blank.
RECURSIVE choice_lines(_, _)
choice_lines(t, from) ==
    LET numbers == {p \in from..Len(t) : t[p] = NUMBER}
    IN  IF numbers = {}
        THEN <<>>
        ELSE LET p == SetMin(numbers)
                 solid == {q \in (p + 1)..Len(t) : t[q] \notin Whitespace}
                 blanks == {q \in (p + 1)..Len(t) : t[q] = SPACE}
                 start == IF solid # {} THEN SetMin(solid)
                          ELSE IF blanks # {} THEN SetMax(blanks)
                          ELSE 0
                 end == SetMax({e \in start..Len(t) :
                                   \A m \in start..e : t[m] # NEWLINE})
             IN  IF start = 0
                 THEN choice_lines(t, p + 1)
                 ELSE <<SubSeq(t, start, end)>> \o choice_lines(t, end + 1)

\* the cut without the limit of four
all_choices(lines) == [i \in 1..Len(lines) |-> strip(lines[i])]

\* for text in choice_lines[:4]: choices.append({..., "text": text.strip()})
first_choices(lines) ==
    [i \in 1..Min(Len(lines), MaxParsedChoices) |-> strip(lines[i])]

\* the ending rule without the test for zero choices
flagged_ending(is_ending, detected_ending, choices) == is_ending \/ detected_ending

\* "is_ending": is_ending or detected_ending or len(choices) == 0
result_is_ending(is_ending, detected_ending, choices) ==
    is_ending \/ detected_ending \/ Len(choices) = 0

\* StoryGenerator._parse_response(content, is_ending); the tags are matched
\* as written (re.IGNORECASE of the ENDING search is not modelled)
parse_text(content, is_ending) ==
    LET story_match == re_search("[STORY]", "[/STORY]", content, TRUE)
        story_content ==
            remove_tags(IF story_match # <<>> THEN strip(story_match[1]) ELSE strip(content))
        choices_match == re_search("[CHOICES]", "[/CHOICES]", content, TRUE)
        choices ==
            IF ~is_ending /\ choices_match # <<>>
            THEN first_choices(choice_lines(strip(choices_match[1]), 1))
            ELSE <<>>
        ending_match == re_search("[ENDING]", "[/ENDING]", content, FALSE)
        detected_ending == ending_match # <<>> /\ strip(ending_match[1]) = <<"true">>
    IN  [content |-> story_content,
         choices |-> choices,
         is_ending |-> result_is_ending(is_ending, detected_ending, choices)]

\* ---- the parser applied to one text ----
\* texts drawn freely: every sequence of at most MaxLen of these tokens
FreeTokens == OpenTags \cup CloseTags \cup Whitespace \cup {NUMBER, "a", "true"}
FreeTexts == UNION {[1..k -> FreeTokens] : k \in 0..MaxLen}

\* well-formed tagged texts: [STORY]X[/STORY][CHOICES]1. A\n1. B ...[/CHOICES]
\* [ENDING]false[/ENDING], with or without a newline inside the blocks
StoryTexts == {<<"a">>, <<"a", SPACE, "b">>, <<"a", NEWLINE, NUMBER, SPACE, "b">>}
ChoiceTexts == {<<"a">>, <<"b", SPACE, NUMBER, "a">>}
ChoiceLists == UNION {[1..k -> ChoiceTexts] : k \in 0..MaxLines}

RECURSIVE numbered_lines(_)
numbered_lines(lines) ==
    IF lines = <<>> THEN <<>>
    ELSE <<NUMBER, SPACE>> \o Head(lines)
         \o (IF Len(lines) > 1 THEN <<NEWLINE>> ELSE <<>>) \o numbered_lines(Tail(lines))

tagged_text(story, lines, pad) ==
    <<"[STORY]">> \o pad \o story \o pad \o <<"[/STORY]", "[CHOICES]">> \o pad
    \o numbered_lines(lines) \o pad \o <<"[/CHOICES]", "[ENDING]", "false", "[/ENDING]">>

ParserCalls ==
    {[pc |-> "call", content |-> t, is_ending |-> e,
      well_formed |-> FALSE, story |-> <<>>, lines |-> <<>>] :
        t \in FreeTexts, e \in BOOLEAN}
    \cup
    {[pc |-> "call", content |-> tagged_text(x, l, pad), is_ending |-> e,
      well_formed |-> TRUE, story |-> x, lines |-> l] :
        x \in StoryTexts, l \in ChoiceLists, pad \in {<<>>, <<NEWLINE>>}, e \in BOOLEAN}

InitParser ==
    /\ stories = <<>>
    /\ nodes = <<>>
    /\ jobs = <<>>
    /\ next_story_id = 1
    /\ next_node_id = 1
    /\ next_job_id = 1
    /\ reqs = [r \in 1..MaxRequests |-> Idle]
    /\ sse = [r \in 1..MaxRequests |-> <<>>]
    /\ streams = 0
    /\ updates = 0
    /\ parser \in ParserCalls
    /\ memory = NoMemory
    /\ generator = NoGenerator

\* parsed = self._parse_response(content, is_ending=...)
parse_response ==
    /\ parser.pc = "call"
    /\ parser' = [pc |-> "done", content |-> parser.content, is_ending |-> parser.is_ending,
                  well_formed |-> parser.well_formed, story |-> parser.story,
                  lines |-> parser.lines,
                  result |-> parse_text(parser.content, parser.is_ending)]
    /\ UNCHANGED <<db, reqs, streams, updates, memory, sse, generator>>

NextParser == parse_response

SpecParser == InitParser /\ [][NextParser]_vars

\* C15: for a well-formed tagged text with STORY block X, k numbered choice
\* lines and ENDING false, parsed for a job type that is not the ending, the
\* result has content X, the first min(k, 4) choice texts in their order, and
\* is_ending = false when k >= 1.
C15_WellFormedRoundTrip ==
    (parser.pc = "done" /\ parser.well_formed /\ ~parser.is_ending) =>
        /\ parser.result.content = parser.story
        /\ parser.result.choices = SubSeq(parser.lines, 1, Min(Len(parser.lines), 4))
        /\ Len(parser.lines) >= 1 => ~parser.result.is_ending

\* C15 witness: a well-formed text with five numbered lines has been parsed
\* and four choices came back.
C15_Witness ==
    /\ parser.pc = "done" /\ parser.well_formed /\ ~parser.is_ending
    /\ Len(parser.lines) = 5
    /\ Len(parser.result.choices) = 4

\* the text carries none of the delimiters
NoDelimiters(t) == \A i \in 1..Len(t) : t[i] \notin OpenTags \cup CloseTags

\* C16 (as stated): for a text without any delimiter the parser returns the
\* whole text as content, no choice and is_ending = true.
C16_PlainTextWhole ==
    (parser.pc = "done" /\ NoDelimiters(parser.content)) =>
        /\ parser.result.content = parser.content
        /\ parser.result.choices = <<>>
        /\ parser.result.is_ending

\* c is t without the whitespace at its two ends
IsTrimmed(c, t) ==
    IF c = <<>>
    THEN \A i \in 1..Len(t) : t[i] \in Whitespace
    ELSE /\ c[1] \notin Whitespace /\ c[Len(c)] \notin Whitespace
         /\ \E i \in 1..Len(t) :
               /\ i + Len(c) - 1 <= Len(t)
               /\ SubSeq(t, i, i + Len(c) - 1) = c
               /\ \A m \in (1..(i - 1)) \cup ((i + Len(c))..Len(t)) : t[m] \in Whitespace

\* C16 (amended): the parser returns a result for every text, and for a text
\* without any delimiter the content is the text without its leading and
\* trailing whitespace, there is no choice and is_ending = true.
C16_PlainTextTrimmed ==
    (parser.pc = "done" /\ NoDelimiters(parser.content)) =>
        /\ IsTrimmed(parser.result.content, parser.content)
        /\ parser.result.choices = <<>>
        /\ parser.result.is_ending

\* C16 witness: a text without delimiters that starts with whitespace and
\* holds a numbered line has been parsed.
C16_Witness ==
    /\ parser.pc = "done" /\ NoDelimiters(parser.content) /\ ~parser.is_ending
    /\ Len(parser.content) >= 3
    /\ parser.content[1] \in Whitespace
    /\ \E i \in 1..Len(parser.content) : parser.content[i] = NUMBER
    /\ parser.result.content # parser.content

\* C17: every parse result without choices has is_ending = true, and every
\* parse result with is_ending = false has between 1 and 4 choices, for every
\* text and job type.
C17_NoChoicesForcesEnding ==
    parser.pc = "done" =>
        /\ Len(parser.result.choices) = 0 => parser.result.is_ending
        /\ ~parser.result.is_ending => Len(parser.result.choices) \in 1..4

\* C17 witness: a text with an empty CHOICES block and ENDING false was
\* parsed for a job type that is not the ending, and is_ending came back true.
C17_Witness ==
    /\ parser.pc = "done" /\ parser.well_formed /\ ~parser.is_ending
    /\ parser.lines = <<>>
    /\ parser.result.choices = <<>>
    /\ parser.result.is_ending

\* ---- the continuity context ----
MaxNames == 10      \* distinct character names over all generated contents
MaxNewNames == 2    \* names one content introduces
MaxReturns == 1     \* times a content names again a name that was dropped
MaxCharacters == 8
MaxKeyEvents == 5
Events == {"found", "met"}

Range(seq) == {seq[i] : i \in 1..Len(seq)}

\* the slice without a limit
whole(seq, n) == seq

\* seq[-n:]
last(seq, n) == IF Len(seq) <= n THEN seq ELSE SubSeq(seq, Len(seq) - n + 1, Len(seq))

\* every name of the content, listed or not
all_named(new_characters, existing_chars) == new_characters

\* for char in new_characters: if char not in existing_chars: ...append(char)
unlisted(new_characters, existing_chars) ==
    SelectSeq(new_characters, LAMBDA char : char \notin existing_chars)

\* StoryGenerator.extract_context_updates, on what the two regular
\* expressions find in the content: new_characters, the names in their order,
\* and action_phrases, the sentences with one of the listed verbs
extract_context_updates(new_characters, action_phrases, existing_context) ==
    LET existing_chars == Range(existing_context.characters)
        characters == existing_context.characters \o unlisted(new_characters, existing_chars)
        key_events ==
            IF action_phrases # <<>>
            THEN Append(existing_context.key_events, action_phrases[1])
            ELSE existing_context.key_events
    IN  [characters |-> last(characters, MaxCharacters),
         key_events |-> last(key_events, MaxKeyEvents)]

InitContext ==
    /\ stories = <<>>
    /\ nodes = <<>>
    /\ jobs = <<>>
    /\ next_story_id = 1
    /\ next_node_id = 1
    /\ next_job_id = 1
    /\ reqs = [r \in 1..MaxRequests |-> Idle]
    /\ sse = [r \in 1..MaxRequests |-> <<>>]
    /\ streams = 0
    /\ updates = 0
    /\ parser = NoCall
    /\ memory = NoMemory
    /\ generator = NoGenerator

\* story.story_context = generator.extract_context_updates(content, existing)
\* for a content that names k characters not named before, after the ones of
\* the context when again is true and after the names of back (names that
\* were dropped from the list), and that holds the given action phrases
update_context(k, again, back, action_phrases) ==
    /\ memory.names + k <= MaxNames
    /\ Len(memory.appended) - memory.names + Len(back) <= MaxReturns
    /\ LET fresh == [i \in 1..k |-> memory.names + i]
           new_characters ==
               (IF again THEN memory.context.characters ELSE <<>>) \o back \o fresh
       IN  memory' = [context |-> extract_context_updates(new_characters, action_phrases,
                                                          memory.context),
                      names |-> memory.names + k,
                      appended |-> memory.appended
                                   \o unlisted(new_characters,
                                               Range(memory.context.characters))]
    /\ UNCHANGED <<db, reqs, streams, updates, parser, sse, generator>>

NextContext ==
    \E k \in 0..MaxNewNames, again \in BOOLEAN,
       back \in {<<>>} \cup {<<c>> : c \in Range(memory.appended) \ Range(memory.context.characters)},
       action_phrases \in {<<>>} \cup {<<e>> : e \in Events} \cup {<<e, f>> : e, f \in Events} :
        update_context(k, again, back, action_phrases)

SpecContext == InitContext /\ [][NextContext]_vars

\* C18: after any number of extract_context_updates calls from the empty
\* context the character list has at most 8 entries and the key-event list
\* at most 5.
C18_ContextBounded ==
    /\ Len(memory.context.characters) <= 8
    /\ Len(memory.context.key_events) <= 5

\* C18 witness: both lists are full and the first name has been dropped.
C18_Witness ==
    /\ Len(memory.context.characters) = MaxCharacters
    /\ Len(memory.context.key_events) = 5
    /\ memory.names > 8
    /\ 1 \notin Range(memory.context.characters)

\* ---- two stories ----
MaxSiblingStories == 2   \* story rows ever created in SpecSiblings
SiblingStoryIds == 1..MaxSiblingStories

\* The tree and generation endpoints over two stories, so that a request can
\* name a node of the other story.
NextSiblings ==
    \/ CreateStory(MaxSiblingStories)
    \/ TreeOn(SiblingStoryIds)
    \/ GenerationOn(SiblingStoryIds)

SpecSiblings == Init /\ [][NextSiblings]_vars

\* C19: in every reachable state every node's story exists and every non-null
\* parent_id refers to an existing node of the same story; a step that
\* creates a node creates it in an existing story and under a parent that was
\* a node of that story (so a request with a nonexistent or foreign-story
\* parent creates nothing), and a step that deletes a story or a node leaves
\* no node behind that refers to it.
C19_ReferencesValid ==
    /\ [](\A n \in DOMAIN nodes :
            /\ nodes[n].story_id \in DOMAIN stories
            /\ nodes[n].parent_id # NULL =>
                  /\ nodes[n].parent_id \in DOMAIN nodes
                  /\ nodes[nodes[n].parent_id].story_id = nodes[n].story_id)
    /\ [][/\ \A n \in DOMAIN nodes' \ DOMAIN nodes :
                /\ nodes'[n].story_id \in DOMAIN stories
                /\ nodes'[n].parent_id # NULL =>
                      /\ nodes'[n].parent_id \in DOMAIN nodes
                      /\ nodes[nodes'[n].parent_id].story_id = nodes'[n].story_id
          /\ \A n \in DOMAIN nodes' :
                /\ nodes'[n].story_id \notin DOMAIN stories \ DOMAIN stories'
                /\ nodes'[n].parent_id \notin DOMAIN nodes \ DOMAIN nodes']_vars

\* C19 witness: two stories have nodes, one of them a node under a parent,
\* so that a node of the other story can be named as a parent.
C19_Witness ==
    /\ \A s \in SiblingStoryIds : s \in DOMAIN stories /\ NodesOf(s) # {}
    /\ \E n \in DOMAIN nodes : nodes[n].parent_id # NULL

\* ---- streamed responses ----
\* The streamed endpoints with the token chunks of the provider, interleaved
\* with the endpoints that change the tree.
NextStream ==
    \/ Tree
    \/ StreamOn(StoryIds)
    \/ \E r \in DOMAIN reqs : stream_token(r)

SpecStream == Init /\ [][NextStream]_vars

\* C20: in a streamed generation the node is persisted and the done event is
\* emitted only after the provider stream has completed; every token event
\* precedes the done event; and the done event is emitted only after the
\* commit of the new node and the commit of the story updates.
C20_DoneAfterCommit ==
    \A r \in DOMAIN sse : \A i \in 1..Len(sse[r]) :
        /\ sse[r][i] \in {"node", "done"} => \E j \in 1..(i - 1) : sse[r][j] = "complete"
        /\ sse[r][i] = "token" => \A j \in 1..(i - 1) : sse[r][j] # "done"
        /\ sse[r][i] = "done" =>
              /\ \E j \in 1..(i - 1) : sse[r][j] = "node"
              /\ \E j \in 1..(i - 1) : sse[r][j] = "story"

\* C20 witness: a streamed response forwarded its tokens, committed and
\* ended with the done event.
C20_Witness ==
    \E r \in DOMAIN sse :
        /\ Len(sse[r]) = MaxTokens + 4
        /\ sse[r][1] = "token"
        /\ sse[r][Len(sse[r])] = "done"

\* ---- PATCH of a story ----
\* the story row with more of its columns
PatchStory(story, title, genre, is_active, story_context) ==
    [f \in DOMAIN story \cup {"title", "genre", "is_active", "story_context", "updated_at"} |->
        CASE f = "title" -> title
          [] f = "genre" -> genre
          [] f = "is_active" -> is_active
          [] f = "story_context" -> story_context
          [] f = "updated_at" -> 0
          [] OTHER -> story[f]]

Titles == {"a", "b"}
Genres == {"fantasy", "mystery"}

\* a story before any generation, after generations from node 1 (the root
\* pointer set, the current node 1 or 2), and after a generated ending
PatchStories ==
    {PatchStory(Story(NULL, NULL, c), t, g, a, NULL) :
        c \in BOOLEAN, t \in Titles, g \in Genres, a \in BOOLEAN}
    \cup {PatchStory(Story(1, n, c), t, g, a, "context") :
            n \in {NULL, 1, 2}, c \in BOOLEAN, t \in Titles, g \in Genres, a \in BOOLEAN}

\* a request body with the field absent or set to one of the values
Optional(field, values) == {<<>>} \cup {field :> v : v \in values}

\* StoryUpdate bodies: any subset of the four fields kept
StoryPatches ==
    {title @@ genre @@ is_active @@ is_completed :
        title \in Optional("title", Titles),
        genre \in Optional("genre", Genres),
        is_active \in Optional("is_active", BOOLEAN),
        is_completed \in Optional("is_completed", BOOLEAN)}

InitPatch ==
    /\ stories \in [{1} -> PatchStories]
    /\ nodes = (1 :> StoryNode(1, NULL, 1, TRUE, FALSE, 0)) @@ (2 :> StoryNode(1, 1, 0, FALSE, TRUE, 1))
    /\ jobs = <<>>
    /\ next_story_id = 2
    /\ next_node_id = 3
    /\ next_job_id = 1
    /\ reqs = [r \in 1..MaxRequests |-> Idle]
    /\ sse = [r \in 1..MaxRequests |-> <<>>]
    /\ streams = 0
    /\ updates = 0
    /\ parser = NoCall
    /\ memory = NoMemory
    /\ generator = NoGenerator

NextPatch == \E s \in StoryIds, d \in StoryPatches : update_story(s, d)

SpecPatch == InitPatch /\ [][NextPatch]_vars

\* C21 (as stated): update_story changes exactly the story fields present in
\* the request and leaves every other story field unchanged, including
\* root_node_id, current_node_id, the continuity context and the node tree.
C21_OnlyRequestedFields ==
    [][\A s \in StoryIds, d \in StoryPatches :
          (s \in DOMAIN stories /\ update_story(s, d)) =>
              /\ \A f \in DOMAIN d : stories'[s][f] = d[f]
              /\ \A f \in DOMAIN stories[s] \ DOMAIN d : stories'[s][f] = stories[s][f]
              /\ UNCHANGED nodes]_vars

\* C21 (amended): update_story changes exactly the story fields present in
\* the request and leaves every other story field unchanged, including
\* root_node_id, current_node_id, the continuity context and the node tree,
\* except updated_at, which moves forward.
C21_OnlyRequestedFieldsAndTimestamp ==
    [][\A s \in StoryIds, d \in StoryPatches :
          (s \in DOMAIN stories /\ update_story(s, d)) =>
              /\ \A f \in DOMAIN d : stories'[s][f] = d[f]
              /\ \A f \in DOMAIN stories[s] \ (DOMAIN d \cup {"updated_at"}) :
                    stories'[s][f] = stories[s][f]
              /\ stories'[s].updated_at >= stories[s].updated_at
              /\ UNCHANGED nodes]_vars

\* C21 witness: a PATCH has changed a story that has both pointers and a context.
C21_Witness ==
    /\ updates = 1
    /\ 1 \in DOMAIN stories
    /\ stories[1].updated_at = 1
    /\ stories[1].root_node_id = 1 /\ stories[1].current_node_id = 2
    /\ stories[1].story_context = "context"

\* ---- a failing context update ----
\* The synchronous endpoints, where the context update of the opening and
\* continuation handlers can raise, interleaved with the tree endpoints.
NextContextFailure ==
    \/ Tree
    \/ SyncOn(StoryIds)
    \/ \E r \in DOMAIN reqs : context_update_fails(r)

SpecContextFailure == Init /\ [][NextContextFailure]_vars

\* C22: when the context update of a synchronous opening or continuation
\* fails after the new node was persisted, the except clause leaves the node
\* persisted, ends the job failed, and leaves the story's root_node_id and
\* current_node_id not advanced to that node.
C22_FailureKeepsPointers ==
    [][\A r \in DOMAIN reqs :
          (/\ reqs[r].pc = "except_pending"
           /\ reqs'[r].kind = "idle"
           /\ reqs[r].story_id \in DOMAIN stories
           /\ reqs[r].job \in DOMAIN jobs) =>
              /\ UNCHANGED nodes
              /\ jobs'[reqs[r].job].status = FAILED
              /\ stories'[reqs[r].story_id].current_node_id # reqs[r].new
              /\ stories'[reqs[r].story_id].root_node_id # reqs[r].new]_vars

\* ---- the model fallback of generate ----
\* settings.groq_model is set by the environment (GROQ_MODEL)
GroqModels == {"llama-3.1-8b-instant", "custom"}
Outcomes == {"ok", "rate_limit", "error"}
MaxInvocations == 5    \* provider calls one generate call can make

\* StoryGenerator._model_fallbacks: the candidates without repetition
RECURSIVE ordered(_, _)
ordered(candidates, seen) ==
    IF candidates = <<>> THEN seen
    ELSE ordered(Tail(candidates),
                 IF Head(candidates) # "" /\ Head(candidates) \notin Range(seen)
                 THEN Append(seen, Head(candidates)) ELSE seen)

_model_fallbacks(groq_model, model_name) ==
    ordered(<<groq_model, model_name, "llama-3.1-8b-instant", "llama-3.3-70b-versatile",
              "mixtral-8x7b-32768">>, <<>>)

\* the error of the first call
first_error(invoked) == 1

\* last_error: e of the first call, then the retry_error of each failed retry
last_error(invoked) == Len(invoked)

\* for candidate in self._model_fallbacks(): ... else: raise last_error
\* outs[k] is what the k-th provider call of this generate call does
RECURSIVE fallback(_, _, _, _)
fallback(candidates, model_name, invoked, outs) ==
    IF candidates = <<>>
    THEN [model_name |-> model_name, invoked |-> invoked, raised |-> last_error(invoked)]
    ELSE IF Head(candidates) = model_name
    THEN fallback(Tail(candidates), model_name, invoked, outs)
    ELSE LET tried == Append(invoked, Head(candidates))
         IN  IF outs[Len(tried)] = "ok"
             THEN [model_name |-> Head(candidates), invoked |-> tried, raised |-> 0]
             ELSE fallback(Tail(candidates), Head(candidates), tried, outs)

\* StoryGenerator.generate up to the provider's answer; _should_switch_model
\* is true of the "rate_limit" error and false of the other
generate(groq_model, model_name, outs) ==
    IF outs[1] = "ok" THEN [model_name |-> model_name, invoked |-> <<model_name>>, raised |-> 0]
    ELSE IF outs[1] = "rate_limit"
    THEN fallback(_model_fallbacks(groq_model, model_name), model_name, <<model_name>>, outs)
    ELSE [model_name |-> model_name, invoked |-> <<model_name>>, raised |-> 1]

\* get_story_generator().generate(...) of one request: the singleton keeps
\* the model_name the call leaves
generate_call(outs) ==
    /\ LET model_name == IF generator.model_name = "" THEN generator.groq_model
                         ELSE generator.model_name
           call == generate(generator.groq_model, model_name, outs)
       IN  generator' = [generator EXCEPT
                            !.model_name = call.model_name, !.invoked = call.invoked,
                            !.outcomes = SubSeq(outs, 1, Len(call.invoked)),
                            !.raised = call.raised]
    /\ UNCHANGED <<db, reqs, streams, updates, parser, memory, sse>>

InitFallback ==
    /\ stories = <<>>
    /\ nodes = <<>>
    /\ jobs = <<>>
    /\ next_story_id = 1
    /\ next_node_id = 1
    /\ next_job_id = 1
    /\ reqs = [r \in 1..MaxRequests |-> Idle]
    /\ sse = [r \in 1..MaxRequests |-> <<>>]
    /\ streams = 0
    /\ updates = 0
    /\ parser = NoCall
    /\ memory = NoMemory
    /\ generator \in {[NoGenerator EXCEPT !.groq_model = m] : m \in GroqModels}

NextFallback == \E outs \in [1..MaxInvocations -> Outcomes] : generate_call(outs)

SpecFallback == InitFallback /\ [][NextFallback]_vars

\* C23 (as stated): when the first provider call of generate fails with a
\* retryable condition, the alternate models are tried in list order, the
\* loop stops at the first success, and if every candidate fails the error
\* raised to the caller is the original error of the first call.
C23_FallbackRaisesOriginal ==
    (Len(generator.invoked) > 0 /\ generator.outcomes[1] = "rate_limit") =>
        LET invoked == generator.invoked
            candidates == _model_fallbacks(generator.groq_model, invoked[1])
        IN  /\ \E at \in [2..Len(invoked) -> 1..Len(candidates)] :
                    /\ \A i \in 2..Len(invoked) : candidates[at[i]] = invoked[i]
                    /\ \A i \in 3..Len(invoked) : at[i - 1] < at[i]
            /\ \A i \in 1..(Len(invoked) - 1) : generator.outcomes[i] # "ok"
            /\ generator.raised = 0 <=> generator.outcomes[Len(invoked)] = "ok"
            /\ generator.raised # 0 =>
                  /\ Range(candidates) \subseteq Range(invoked)
                  /\ generator.raised = 1

\* C23 (amended): when the first provider call of generate fails with a
\* retryable condition, the candidates are tried in list order, the loop
\* stops at the first success, and if every candidate fails the error raised
\* to the caller is the error of the last call made.
C23_FallbackRaisesLast ==
    (Len(generator.invoked) > 0 /\ generator.outcomes[1] = "rate_limit") =>
        LET invoked == generator.invoked
            candidates == _model_fallbacks(generator.groq_model, invoked[1])
        IN  /\ \E at \in [2..Len(invoked) -> 1..Len(candidates)] :
                    /\ \A i \in 2..Len(invoked) : candidates[at[i]] = invoked[i]
                    /\ \A i \in 3..Len(invoked) : at[i - 1] < at[i]
            /\ \A i \in 1..(Len(invoked) - 1) : generator.outcomes[i] # "ok"
            /\ generator.raised = 0 <=> generator.outcomes[Len(invoked)] = "ok"
            /\ generator.raised # 0 =>
                  /\ Range(candidates) \subseteq Range(invoked)
                  /\ generator.raised = Len(invoked)

\* C23 witness: every candidate failed after a retryable first failure, and
\* the error of the last one was raised.
C23_Witness ==
    /\ Len(generator.invoked) > 2
    /\ generator.outcomes[1] = "rate_limit"
    /\ generator.raised = Len(generator.invoked)

\* C29: within one generate call on the shared generator, whatever model
\* earlier requests left selected, the fallback loop invokes each distinct
\* model at most once and never invokes again the model whose failure
\* started the fallback.
C29_NoModelInvokedTwice ==
    \A i, j \in 1..Len(generator.invoked) :
        generator.invoked[i] = generator.invoked[j] => i = j

\* C24: for the same story state, job type, target node and provider output
\* the streamed path persists what the synchronous path persists: the same
\* new-node fields and the same story pointers and completion flag (and the
\* same job transitions: the synchronous paths create a job, the streamed
\* ones none).
C24_StreamMatchesSync ==
    \A s \in DOMAIN stories, n \in 0..MaxChoices, e \in BOOLEAN :
        /\ RootsOf(s) = {} =>
              LET result == _parse_response(n, e, FALSE)
                  node == StreamNode(s, NULL, "generate_opening", result)
              IN  /\ node = OpeningNode(s, result)
                  /\ StreamPointers(stories[s], next_node_id, TRUE, node.is_ending)
                        = OpeningPointers(stories[s], next_node_id)
        /\ \A p \in NodesOf(s) :
              /\ ~nodes[p].is_ending =>
                    LET result == _parse_response(n, e, FALSE)
                        node == StreamNode(s, p, "generate_continuation", result)
                    IN  /\ node = ContinuationNode(s, p, result)
                        /\ StreamPointers(stories[s], next_node_id, FALSE, node.is_ending)
                              = ContinuationPointers(stories[s], next_node_id)
              /\ LET result == _parse_response(n, e, TRUE)
                     node == StreamNode(s, p, "generate_ending", result)
                 IN  /\ node = EndingNode(s, p)
                     /\ StreamPointers(stories[s], next_node_id, FALSE, node.is_ending)
                           = EndingPointers(stories[s])

\* ---- two continuations of one node ----
MaxTwinJobs == 2   \* continuation requests accepted in SpecTwins

\* story 1 with an authored root node, and two request slots
InitTwins ==
    /\ stories = (1 :> Story(NULL, NULL, FALSE))
    /\ nodes = (1 :> StoryNode(1, NULL, 0, TRUE, FALSE, 0))
    /\ jobs = <<>>
    /\ next_story_id = 2
    /\ next_node_id = 2
    /\ next_job_id = 1
    /\ reqs = [r \in 1..MaxRaceRequests |-> Idle]
    /\ sse = [r \in 1..MaxRaceRequests |-> <<>>]
    /\ streams = 0
    /\ updates = 0
    /\ parser = NoCall
    /\ memory = NoMemory
    /\ generator = NoGenerator

\* continuation requests alone, any number of them in flight together
NextTwins ==
    \/ \E s \in StoryIds, n \in NodeIds : next_job_id <= MaxTwinJobs /\ continue_story(s, n)
    \/ \E r \in DOMAIN reqs : job_processing(r)
    \/ \E r \in DOMAIN reqs, ok \in BOOLEAN, n \in 0..MaxChoices, e \in BOOLEAN : continue_node(r, ok, n, e)
    \/ \E r \in DOMAIN reqs : continue_pointers(r)
    \/ \E r \in DOMAIN reqs : job_completed(r)
    \/ \E r \in DOMAIN reqs : job_failed(r)

SpecTwins == InitTwins /\ [][NextTwins]_vars

\* C25: when two continuation requests for the same node run concurrently and
\* both complete, both new nodes are persisted as children of that node; the
\* story's current_node_id changes only when a request commits its pointer
\* update, to the node of that request, so that it ends as the node of the
\* request that committed its pointer update last.
C25_LastPointerWins ==
    /\ []((\A j \in 1..MaxTwinJobs : j \in DOMAIN jobs /\ jobs[j].status = COMPLETED) =>
             /\ Cardinality(DOMAIN nodes) = 1 + MaxTwinJobs
             /\ stories[1].current_node_id \in DOMAIN nodes \ {1})
    /\ [][\A r \in DOMAIN reqs :
             (reqs[r].pc = "generate" /\ reqs'[r].pc = "pointers") =>
                 /\ reqs'[r].new \in DOMAIN nodes' \ DOMAIN nodes
                 /\ nodes'[reqs'[r].new].parent_id = reqs[r].node_id]_vars
    /\ [][\A r \in DOMAIN reqs :
             (reqs[r].pc = "pointers" /\ reqs'[r].pc = "completed") =>
                 stories'[1].current_node_id = reqs[r].new]_vars
    /\ [][stories'[1].current_node_id # stories[1].current_node_id =>
             \E r \in DOMAIN reqs : reqs[r].pc = "pointers" /\ reqs'[r].pc = "completed"]_vars

\* C25 witness: both requests continued node 1 at the same time and have
\* completed; the request that inserted its node first committed its pointer
\* last.
C25_Witness ==
    /\ \A j \in 1..MaxTwinJobs : j \in DOMAIN jobs /\ jobs[j].status = COMPLETED
    /\ Children(1) = {2, 3}
    /\ stories[1].current_node_id = 2

\* C26 (as stated): after any sequence of extract_context_updates calls from
\* an empty context the character list has no duplicate names, keeps the
\* names in the order they were first appended, and holds the names appended
\* last when more than 8 were appended (the oldest-appended are dropped first).
C26_FirstAppendOrder ==
    LET characters == memory.context.characters
        first(c) == CHOOSE i \in 1..Len(memory.appended) :
                        /\ memory.appended[i] = c
                        /\ \A j \in 1..(i - 1) : memory.appended[j] # c
    IN  /\ \A i, j \in 1..Len(characters) : characters[i] = characters[j] => i = j
        /\ \A i, j \in 1..Len(characters) : i < j => first(characters[i]) < first(characters[j])
        /\ characters = last(memory.appended, MaxCharacters)

\* C26 (amended): after any sequence of extract_context_updates calls from
\* an empty context the character list has no duplicate names, keeps the
\* names in the order of their latest append (a dropped name that is named
\* again is appended anew), and holds the names appended last when more than
\* 8 were appended (the oldest-appended are dropped first).
C26_LatestAppendOrder ==
    LET characters == memory.context.characters
        latest(c) == CHOOSE i \in 1..Len(memory.appended) :
                        /\ memory.appended[i] = c
                        /\ \A j \in (i + 1)..Len(memory.appended) : memory.appended[j] # c
    IN  /\ \A i, j \in 1..Len(characters) : characters[i] = characters[j] => i = j
        /\ \A i, j \in 1..Len(characters) : i < j => latest(characters[i]) < latest(characters[j])
        /\ characters = last(memory.appended, MaxCharacters)

\* C26 witness: the list is full, names were dropped, and a dropped name was
\* named again and stands at the end of the list.
C26_Witness ==
    /\ Len(memory.context.characters) = MaxCharacters
    /\ Len(memory.appended) > memory.names
    /\ memory.context.characters[MaxCharacters] = memory.appended[1]

\* ---- GET /{story_id}/nodes/{node_id}/path ----
\* The while loop of get_node_path from the row current (NULL for None),
\* with the rows appended so far: each row is appended and the walk goes on
\* at db.get of its parent_id. A row met for the second time would be
\* appended for ever: the walk is then reported as not terminating.
RECURSIVE walk(_, _)
walk(current, path) ==
    IF current = NULL THEN [path |-> path, terminates |-> TRUE]
    ELSE IF current \in Range(path) THEN [path |-> path, terminates |-> FALSE]
    ELSE IF nodes[current].parent_id # NULL
         THEN walk(IF nodes[current].parent_id \in DOMAIN nodes
                   THEN nodes[current].parent_id ELSE NULL,
                   Append(path, current))
         ELSE [path |-> Append(path, current), terminates |-> TRUE]

\* the path as the loop built it, from the node up to the root
get_node_path_upwards(story_id, node_id) ==
    IF node_id \in DOMAIN nodes /\ nodes[node_id].story_id = story_id
    THEN [status |-> 200] @@ walk(node_id, <<>>)
    ELSE [status |-> 404, path |-> <<>>, terminates |-> TRUE]

\* get_node_path: the read-only transaction of the request on the committed
\* rows; the response lists the ids of the rows after path.reverse()
get_node_path(story_id, node_id) ==
    IF node_id \in DOMAIN nodes /\ nodes[node_id].story_id = story_id
    THEN LET up == walk(node_id, <<>>)
         IN  [status |-> 200,
              path |-> [i \in 1..Len(up.path) |-> up.path[Len(up.path) + 1 - i]],
              terminates |-> up.terminates]
    ELSE [status |-> 404, path |-> <<>>, terminates |-> TRUE]

\* C27: for every node of every reachable tree get_node_path terminates and
\* answers the chain root first: the first row has a null parent_id, each
\* later row's parent_id is the id of the row before it, and the last row is
\* the requested node.
C27_PathRootFirst ==
    \A n \in DOMAIN nodes :
        LET response == get_node_path(nodes[n].story_id, n)
            path == response.path
        IN  /\ response.status = 200
            /\ response.terminates
            /\ Len(path) >= 1
            /\ nodes[path[1]].parent_id = NULL
            /\ \A i \in 2..Len(path) : nodes[path[i]].parent_id = path[i - 1]
            /\ path[Len(path)] = n

\* C27 witness: a node two levels below its root, whose path has three rows.
C27_Witness ==
    \E n \in DOMAIN nodes :
        /\ nodes[n].depth = 2
        /\ Len(get_node_path(nodes[n].story_id, n).path) = 3

InitCold ==
    /\ stories = <<>>
    /\ nodes = <<>>
    /\ jobs = <<>>
    /\ next_story_id = 1
    /\ next_node_id = 1
    /\ next_job_id = 1
    /\ reqs = [r \in 1..MaxRequests |-> Idle]
    /\ sse = [r \in 1..MaxRequests |-> <<>>]
    /\ streams = 0
    /\ updates = 0
    /\ parser = NoCall
    /\ memory = NoMemory
    /\ \E key, warmed \in BOOLEAN :
          generator = [NoGenerator EXCEPT !.groq_api_key = key, !.instance = warmed,
                                          !.initialized = key /\ warmed]

SpecColdStream == InitCold /\ [][NextStream]_vars

\* C30: every streamed generation response consists of zero or more token
\* events followed by exactly one terminal event, done or error: while the
\* response is sent its events are token events followed by at most one
\* terminal event, and when the response ends (story or parent missing,
\* generator not initialised, provider failure, failed commit, or success)
\* its last event is the one terminal event.
C30_OneTerminalEvent ==
    /\ [](\A r \in DOMAIN sse :
            LET events == SelectSeq(sse[r], LAMBDA e : e \in {"token", "done", "error"})
            IN  \A i \in 1..(Len(events) - 1) : events[i] = "token")
    /\ [][\A r \in DOMAIN reqs :
            (reqs[r].kind \in StreamKinds /\ reqs'[r].kind = "idle") =>
                LET events == SelectSeq(sse'[r], LAMBDA e : e \in {"token", "done", "error"})
                IN  /\ Len(events) >= 1
                    /\ events[Len(events)] \in {"done", "error"}]_vars

====
